---- MODULE Spec2Model ----
(***************************************************************************)
(* Model of jmckinny/dupes: DupeScanner (src/dupe_scanner.rs).  The        *)
(* controller thread walks the directory tree and submits one handle_file  *)
(* job per non-directory entry to a fixed-size thread pool; every job      *)
(* hashes its file and then looks the digest up in, or inserts it into,    *)
(* the shared RwLock<HashMap<digest, path>>.  src/main.rs holds an older   *)
(* copy of the same functions without the symlink switch; it behaves as    *)
(* the model does with ignore_symlinks = FALSE.                            *)
(***************************************************************************)
EXTENDS Integers, Sequences, FiniteSets, TLC

VARIABLES start_dir, ignore_symlinks, num_threads, fault,
          pc, calls, stack, result, tasks, seen_files, lock, stdout

vars == <<start_dir, ignore_symlinks, num_threads, fault,
          pc, calls, stack, result, tasks, seen_files, lock, stdout>>

inputs == <<start_dir, ignore_symlinks, num_threads, fault>>

(***************************************************************************)
(* Bounds of the model.                                                    *)
(***************************************************************************)
NumFiles == 2
MaxWorkers == 2
\* find_dupes is called at most MaxCalls times on one scanner, and called
\* again only while the scanner has run at most MaxRescanJobs jobs
MaxCalls == 2
MaxRescanJobs == 1

(***************************************************************************)
(* The file system the scanner is pointed at.                              *)
(*   r/            directory                                               *)
(*   r/f1..r/fN    regular files, identical content                        *)
(*   r/sub/        directory       r/sub/g  regular file, same content     *)
(*   r/ld          symlink to a directory that holds the file h            *)
(*   r/lf          symlink to a regular file with the content of h         *)
(*   nx            a path that does not exist                              *)
(***************************************************************************)
FileName(i) == "r/f" \o ToString(i)

RootFiles == [i \in 1..NumFiles |-> FileName(i)]

Paths == {FileName(i) : i \in 1..NumFiles}
           \cup {"r", "r/sub", "r/sub/g", "r/ld", "r/ld/h", "r/lf", "nx"}

Exists(p) == p # "nx"

\* Path::is_dir follows symbolic links: true for r/ld as well.
is_dir(p) == p \in {"r", "r/sub", "r/ld"}

\* Path::is_symlink looks at the entry itself.
is_symlink(p) == p \in {"r/ld", "r/lf"}

\* std::fs::read_dir(p), in directory-listing order.
Entries(p) ==
    CASE p = "r"     -> RootFiles \o <<"r/sub", "r/ld", "r/lf">>
      [] p = "r/sub" -> <<"r/sub/g">>
      [] p = "r/ld"  -> <<"r/ld/h">>
      [] OTHER       -> <<>>

\* The bytes a reader of p gets.
Content(p) ==
    CASE p \in {"r/ld/h", "r/lf"} -> <<2, 2>>
      [] OTHER                    -> <<1>>

(***************************************************************************)
(* I/O faults of the environment; one scan meets at most one of them.      *)
(*   open     File::open(at) fails                                         *)
(*   read     every reader.read on at returns Err                          *)
(*   readdir  std::fs::read_dir(at) fails                                  *)
(*   entry    the directory iterator yields Err in place of the entry at   *)
(*   nonutf8  the path at is not valid UTF-8: Path::to_str is None         *)
(***************************************************************************)
NoFault == [kind |-> "none", at |-> "-"]

Faults ==
    {NoFault}
      \cup {[kind |-> "open", at |-> p] : p \in {FileName(1), "r/sub/g"}}
      \cup {[kind |-> "read", at |-> p] : p \in {FileName(1)}}
      \cup {[kind |-> "readdir", at |-> p] : p \in {"r", "r/sub"}}
      \cup {[kind |-> "entry", at |-> p] : p \in {"r/ld"}}
      \cup {[kind |-> "nonutf8", at |-> p] : p \in {FileName(NumFiles)}}

FaultAt(k, p) == fault.kind = k /\ fault.at = p

(***************************************************************************)
(* Option<T>: None is the empty sequence, Some(x) a one-element sequence.  *)
(***************************************************************************)
None == <<>>
Some(x) == <<x>>
IsSome(o) == Len(o) = 1
Unwrap(o) == o[1]

\* Path::to_str
to_str(p) == IF FaultAt("nonutf8", p) THEN None ELSE Some(p)

(***************************************************************************)
(* hash_file: the file is read in chunks of BUFFER_SIZE bytes, each chunk  *)
(* is folded into the hasher, a read of 0 bytes ends the loop.  SHA-1 is   *)
(* modelled as collision free: the digest determines the bytes hashed.     *)
(***************************************************************************)
BUFFER_SIZE == 4096

Min(a, b) == IF a < b THEN a ELSE b

\* reader.read(&mut buffer) at offset off: the bytes_read and the chunk
ReadChunk(bytes, off) ==
    SubSeq(bytes, off + 1, Min(Len(bytes), off + BUFFER_SIZE))

\* Sha1::update
HasherUpdate(h, chunk) == h \o chunk

\* Sha1::finalize().to_vec()
HasherFinalize(h) == <<"sha1">> \o h

RECURSIVE HashLoop(_, _, _)
HashLoop(bytes, off, h) ==
    LET chunk == ReadChunk(bytes, off)
    IN  IF Len(chunk) = 0
          THEN HasherFinalize(h)
          ELSE HashLoop(bytes, off + Len(chunk), HasherUpdate(h, chunk))

hash_file(p) == HashLoop(Content(p), 0, <<>>)

(***************************************************************************)
(* Tasks: the jobs handed to worker_pool.execute, in submission order.     *)
(***************************************************************************)
Terminal == {"Reported", "Recorded", "Failed"}
Running == {"Hashing", "HashRetry", "Checking", "ReadLocked", "Observed",
            "WriteLocked"}

NoHash == <<>>

\* scan: the call of find_dupes that submitted the job
NewTask(p) ==
    [path |-> p, scan |-> calls, st |-> "Pending", hash |-> NoHash,
     seen_file |-> None]

TaskIds == DOMAIN tasks

ActiveCount == Cardinality({t \in TaskIds : tasks[t].st \in Running})

\* The job queue of the pool is first-in first-out.
IsQueueHead(t) ==
    /\ tasks[t].st = "Pending"
    /\ \A u \in TaskIds : u < t => tasks[u].st # "Pending"

SetTask(t, r) == [tasks EXCEPT ![t] = r]

\* a finished closure leaves nothing behind but its outcome
Finish(t, outcome) ==
    SetTask(t, [path |-> tasks[t].path, scan |-> tasks[t].scan,
                st |-> outcome, hash |-> NoHash, seen_file |-> None])

NoLock == [readers |-> {}, writer |-> 0, poisoned |-> FALSE]

(***************************************************************************)
(* DupeScanner::new                                                        *)
(***************************************************************************)
Init ==
    /\ start_dir \in {"r", FileName(1), "r/lf", "nx"}
    /\ ignore_symlinks \in BOOLEAN
    /\ num_threads \in 1..MaxWorkers
    /\ fault \in Faults
    /\ pc = "idle"
    /\ calls = 0
    /\ stack = <<>>
    /\ result = "none"
    /\ tasks = <<>>
    /\ seen_files = <<>>
    /\ lock = NoLock
    /\ stdout = <<>>


(***************************************************************************)
(* The controller: find_dupes and the recursion of scan_directory.  stack  *)
(* holds one frame per active call of scan_directory: the directory it     *)
(* iterates and the index of the entry the iterator yields next (0 before  *)
(* read_dir was called).                                                   *)
(***************************************************************************)
Frame(p) == [path |-> p, i |-> 0]

Top == stack[Len(stack)]

Pop == SubSeq(stack, 1, Len(stack) - 1)

Advance == [stack EXCEPT ![Len(stack)].i = @ + 1]

\* worker_pool.execute(move || handle_file(seen_copy, path))
Execute(p) == tasks' = Append(tasks, NewTask(p))

\* ReturnErr with a fault injected: the error only ends the enumeration of
\* the directory at hand, the caller goes on (C14 must tell the two apart)
ReturnErrSubtreeOnly ==
    /\ stack' = Pop
    /\ UNCHANGED <<pc, result>>

\* scan_directory returned Err: every caller up to find_dupes forwards it
\* with `?`, and find_dupes returns it without reaching worker_pool.join().
ReturnErr ==
    /\ stack' = <<>>
    /\ pc' = "done"
    /\ result' = "Err"

\* find_dupes, up to the call of scan_directory(&start_dir); it takes
\* &mut self and can be called again once it has returned: the scanner
\* keeps its seen_files and its worker_pool
FindDupes ==
    /\ \/ pc = "idle"
       \/ pc = "done" /\ calls < MaxCalls /\ Len(tasks) <= MaxRescanJobs
    /\ pc' = "scan"
    /\ calls' = calls + 1
    /\ result' = "none"
    /\ stack' = <<Frame(start_dir)>>
    /\ UNCHANGED <<inputs, tasks, seen_files, lock, stdout>>

\* scan_directory on a directory: read_dir(path)? succeeds
ScanReadDir ==
    /\ pc = "scan" /\ stack # <<>>
    /\ Top.i = 0
    /\ is_dir(Top.path)
    /\ ~FaultAt("readdir", Top.path)
    /\ stack' = Advance
    /\ UNCHANGED <<inputs, calls, pc, result, tasks, seen_files, lock, stdout>>

\* scan_directory on a directory: read_dir(path)? fails
ScanReadDirErr ==
    /\ pc = "scan" /\ stack # <<>>
    /\ Top.i = 0
    /\ is_dir(Top.path)
    /\ FaultAt("readdir", Top.path)
    /\ ReturnErr
    /\ UNCHANGED <<inputs, calls, tasks, seen_files, lock, stdout>>

\* scan_directory on a path that is no directory, skipped as a symlink
ScanRootSkip ==
    /\ pc = "scan" /\ stack # <<>>
    /\ Top.i = 0
    /\ ~is_dir(Top.path)
    /\ ignore_symlinks /\ is_symlink(Top.path)
    /\ stack' = Pop
    /\ UNCHANGED <<inputs, calls, pc, result, tasks, seen_files, lock, stdout>>

\* ScanRootFile with a fault injected: the symlink test of lines 75-77 is
\* missing (C15 must tell the two apart)
ScanRootFileNoPolicy ==
    /\ pc = "scan" /\ stack # <<>>
    /\ Top.i = 0
    /\ ~is_dir(Top.path)
    /\ Execute(Top.path)
    /\ stack' = Pop
    /\ UNCHANGED <<inputs, calls, pc, result, seen_files, lock, stdout>>

\* scan_directory on a path that is no directory: one job for the path
ScanRootFile ==
    /\ pc = "scan" /\ stack # <<>>
    /\ Top.i = 0
    /\ ~is_dir(Top.path)
    /\ ~(ignore_symlinks /\ is_symlink(Top.path))
    /\ Execute(Top.path)
    /\ stack' = Pop
    /\ UNCHANGED <<inputs, calls, pc, result, seen_files, lock, stdout>>

HasEntry ==
    /\ pc = "scan" /\ stack # <<>>
    /\ Top.i >= 1
    /\ Top.i <= Len(Entries(Top.path))

Entry == Entries(Top.path)[Top.i]

\* `let entry = entry?;` fails
ScanEntryErr ==
    /\ HasEntry
    /\ FaultAt("entry", Entry)
    /\ ReturnErr
    /\ UNCHANGED <<inputs, calls, tasks, seen_files, lock, stdout>>

\* an entry that is no directory and is skipped as a symlink
ScanEntrySkip ==
    /\ HasEntry
    /\ ~FaultAt("entry", Entry)
    /\ ~is_dir(Entry)
    /\ ignore_symlinks /\ is_symlink(Entry)
    /\ stack' = Advance
    /\ UNCHANGED <<inputs, calls, pc, result, tasks, seen_files, lock, stdout>>

\* an entry that is no directory: one job for it
ScanEntryFile ==
    /\ HasEntry
    /\ ~FaultAt("entry", Entry)
    /\ ~is_dir(Entry)
    /\ ~(ignore_symlinks /\ is_symlink(Entry))
    /\ Execute(Entry)
    /\ stack' = Advance
    /\ UNCHANGED <<inputs, calls, pc, result, seen_files, lock, stdout>>

\* an entry for which is_dir() holds: self.scan_directory(&entry.path())?
ScanEntryDir ==
    /\ HasEntry
    /\ ~FaultAt("entry", Entry)
    /\ is_dir(Entry)
    /\ stack' = Append(Advance, Frame(Entry))
    /\ UNCHANGED <<inputs, calls, pc, result, tasks, seen_files, lock, stdout>>

\* the for loop of a directory is exhausted: scan_directory returns Ok(())
ScanReturn ==
    /\ pc = "scan" /\ stack # <<>>
    /\ Top.i > Len(Entries(Top.path))
    /\ stack' = Pop
    /\ UNCHANGED <<inputs, calls, pc, result, tasks, seen_files, lock, stdout>>

\* find_dupes: scan_directory returned Ok, worker_pool.join() is called
JoinCall ==
    /\ pc = "scan" /\ stack = <<>>
    /\ pc' = "join"
    /\ UNCHANGED <<inputs, calls, stack, result, tasks, seen_files, lock, stdout>>

\* ThreadPool::join returns when no job is queued and none is active;
\* find_dupes then returns Ok(())
JoinReturn ==
    /\ pc = "join"
    /\ \A t \in TaskIds : tasks[t].st \in Terminal
    /\ pc' = "done"
    /\ result' = "Ok"
    /\ UNCHANGED <<inputs, calls, stack, tasks, seen_files, lock, stdout>>


(***************************************************************************)
(* The workers: handle_file, run by a thread of the pool.  A panic of the  *)
(* closure ends the job; the pool replaces the thread and goes on.         *)
(***************************************************************************)
\* File::open(path) is Ok
FileOpen(p) == Exists(p) /\ ~FaultAt("open", p)

\* HashMap::get
MapGet(m, k) == IF k \in DOMAIN m THEN Some(m[k]) ELSE None

\* HashMap::insert: an existing value of the key is replaced
MapInsert(m, k, v) == (k :> v) @@ m

\* println!("{} = {}", path, x)
Line(p, x) == [dup |-> p, orig |-> x]

\* CanStart with a fault injected: one thread of the pool is kept back and
\* never runs a job (C17 must tell the two apart)
CanStartSpareThread(t) ==
    /\ IsQueueHead(t)
    /\ ActiveCount < num_threads - 1

\* A free thread takes the oldest queued job; hash_file opens the file.
CanStart(t) ==
    /\ IsQueueHead(t)
    /\ ActiveCount < num_threads

\* StartHash with a fault injected: a thread is spawned for every queued
\* job (C18 must tell the two apart)
StartHashUnbounded(t) ==
    /\ IsQueueHead(t)
    /\ FileOpen(tasks[t].path)
    /\ tasks' = SetTask(t, [tasks[t] EXCEPT !.st = "Hashing"])
    /\ UNCHANGED <<inputs, calls, pc, stack, result, seen_files, lock, stdout>>

StartHash(t) ==
    /\ CanStart(t)
    /\ FileOpen(tasks[t].path)
    /\ tasks' = SetTask(t, [tasks[t] EXCEPT !.st = "Hashing"])
    /\ UNCHANGED <<inputs, calls, pc, stack, result, seen_files, lock, stdout>>

\* OpenPanic with a fault injected: the failed open is swallowed and the
\* file hashed as if it were empty (C9 must tell the two apart)
OpenSwallowed(t) ==
    /\ CanStart(t)
    /\ ~FileOpen(tasks[t].path)
    /\ tasks' = SetTask(t, [tasks[t] EXCEPT !.st = "Checking",
                                            !.hash = HashLoop(<<>>, 0, <<>>)])
    /\ UNCHANGED <<inputs, calls, pc, stack, result, seen_files, lock, stdout>>

\* File::open(path).unwrap() panics
OpenPanic(t) ==
    /\ CanStart(t)
    /\ ~FileOpen(tasks[t].path)
    /\ tasks' = Finish(t, "Failed")
    /\ UNCHANGED <<inputs, calls, pc, stack, result, seen_files, lock, stdout>>

\* The read loop of hash_file runs to the read of 0 bytes.
HashFile(t) ==
    /\ tasks[t].st = "Hashing"
    /\ ~FaultAt("read", tasks[t].path)
    /\ tasks' = SetTask(t, [tasks[t] EXCEPT !.st = "Checking",
                                            !.hash = hash_file(tasks[t].path)])
    /\ UNCHANGED <<inputs, calls, pc, stack, result, seen_files, lock, stdout>>

\* reader.read returns Err: `if let Ok(..)` does not match, nothing is done
HashReadErr(t) ==
    /\ tasks[t].st = "Hashing"
    /\ FaultAt("read", tasks[t].path)
    /\ tasks' = SetTask(t, [tasks[t] EXCEPT !.st = "HashRetry"])
    /\ UNCHANGED <<inputs, calls, pc, stack, result, seen_files, lock, stdout>>

\* ... and the loop goes round to the next read
HashRetry(t) ==
    /\ tasks[t].st = "HashRetry"
    /\ tasks' = SetTask(t, [tasks[t] EXCEPT !.st = "Hashing"])
    /\ UNCHANGED <<inputs, calls, pc, stack, result, seen_files, lock, stdout>>

\* seen_files.read().unwrap()
AcquireRead(t) ==
    /\ tasks[t].st = "Checking"
    /\ lock.writer = 0
    /\ ~lock.poisoned
    /\ lock' = [lock EXCEPT !.readers = @ \cup {t}]
    /\ tasks' = SetTask(t, [tasks[t] EXCEPT !.st = "ReadLocked"])
    /\ UNCHANGED <<inputs, calls, pc, stack, result, seen_files, stdout>>

\* seen_files.read() is Err(PoisonError): unwrap panics
ReadPoisoned(t) ==
    /\ tasks[t].st = "Checking"
    /\ lock.writer = 0
    /\ lock.poisoned
    /\ tasks' = Finish(t, "Failed")
    /\ UNCHANGED <<inputs, calls, pc, stack, result, seen_files, lock, stdout>>

\* Lookup with a fault injected: the read guard lives on to the end of
\* handle_file (C20 must tell the two apart)
LookupKeepsGuard(t) ==
    /\ tasks[t].st = "ReadLocked"
    /\ tasks' = SetTask(t, [tasks[t] EXCEPT
                              !.st = "Observed",
                              !.seen_file = MapGet(seen_files, tasks[t].hash)])
    /\ UNCHANGED <<inputs, calls, pc, stack, result, seen_files, lock, stdout>>

\* .get(&hash), the clone of the value, and the drop of the read guard
Lookup(t) ==
    /\ tasks[t].st = "ReadLocked"
    /\ tasks' = SetTask(t, [tasks[t] EXCEPT
                              !.st = "Observed",
                              !.seen_file = MapGet(seen_files, tasks[t].hash)])
    /\ lock' = [lock EXCEPT !.readers = @ \ {t}]
    /\ UNCHANGED <<inputs, calls, pc, stack, result, seen_files, stdout>>

\* Report with a fault injected: the reporting job records its own path as
\* well (C16 must tell the two apart)
ReportAndRecord(t) ==
    /\ tasks[t].st = "Observed"
    /\ IsSome(tasks[t].seen_file)
    /\ IsSome(to_str(tasks[t].path))
    /\ stdout' = Append(stdout, Line(Unwrap(to_str(tasks[t].path)),
                                     Unwrap(tasks[t].seen_file)))
    /\ seen_files' = MapInsert(seen_files, tasks[t].hash,
                               Unwrap(to_str(tasks[t].path)))
    /\ tasks' = Finish(t, "Reported")
    /\ UNCHANGED <<inputs, calls, pc, stack, result, lock>>

\* if let Some(x) = seen_file: println!
Report(t) ==
    /\ tasks[t].st = "Observed"
    /\ IsSome(tasks[t].seen_file)
    /\ IsSome(to_str(tasks[t].path))
    /\ stdout' = Append(stdout, Line(Unwrap(to_str(tasks[t].path)),
                                     Unwrap(tasks[t].seen_file)))
    /\ tasks' = Finish(t, "Reported")
    /\ UNCHANGED <<inputs, calls, pc, stack, result, seen_files, lock>>

\* path.to_str().unwrap() panics in the arguments of println!
ReportPanic(t) ==
    /\ tasks[t].st = "Observed"
    /\ IsSome(tasks[t].seen_file)
    /\ ~IsSome(to_str(tasks[t].path))
    /\ tasks' = Finish(t, "Failed")
    /\ UNCHANGED <<inputs, calls, pc, stack, result, seen_files, lock, stdout>>

\* else: seen_files.write().unwrap()
AcquireWrite(t) ==
    /\ tasks[t].st = "Observed"
    /\ ~IsSome(tasks[t].seen_file)
    /\ lock.writer = 0 /\ lock.readers = {}
    /\ ~lock.poisoned
    /\ lock' = [lock EXCEPT !.writer = t]
    /\ tasks' = SetTask(t, [tasks[t] EXCEPT !.st = "WriteLocked"])
    /\ UNCHANGED <<inputs, calls, pc, stack, result, seen_files, stdout>>

\* seen_files.write() is Err(PoisonError): unwrap panics
WritePoisoned(t) ==
    /\ tasks[t].st = "Observed"
    /\ ~IsSome(tasks[t].seen_file)
    /\ lock.writer = 0 /\ lock.readers = {}
    /\ lock.poisoned
    /\ tasks' = Finish(t, "Failed")
    /\ UNCHANGED <<inputs, calls, pc, stack, result, seen_files, lock, stdout>>

\* .insert(hash, String::from(path.to_str().unwrap())), guard dropped
Insert(t) ==
    /\ tasks[t].st = "WriteLocked"
    /\ IsSome(to_str(tasks[t].path))
    /\ seen_files' = MapInsert(seen_files, tasks[t].hash,
                               Unwrap(to_str(tasks[t].path)))
    /\ lock' = [lock EXCEPT !.writer = 0]
    /\ tasks' = Finish(t, "Recorded")
    /\ UNCHANGED <<inputs, calls, pc, stack, result, stdout>>

\* path.to_str().unwrap() panics in the arguments of insert, while the
\* write guard is alive: the guard is dropped in the unwinding and the
\* RwLock is poisoned
InsertPanic(t) ==
    /\ tasks[t].st = "WriteLocked"
    /\ ~IsSome(to_str(tasks[t].path))
    /\ lock' = [lock EXCEPT !.writer = 0, !.poisoned = TRUE]
    /\ tasks' = Finish(t, "Failed")
    /\ UNCHANGED <<inputs, calls, pc, stack, result, seen_files, stdout>>

Controller ==
    \/ FindDupes
    \/ ScanReadDir
    \/ ScanReadDirErr
    \/ ScanRootSkip
    \/ ScanRootFile
    \/ ScanEntryErr
    \/ ScanEntrySkip
    \/ ScanEntryFile
    \/ ScanEntryDir
    \/ ScanReturn
    \/ JoinCall
    \/ JoinReturn

Worker(t) ==
    \/ StartHash(t)
    \/ OpenPanic(t)
    \/ HashFile(t)
    \/ HashReadErr(t)
    \/ HashRetry(t)
    \/ AcquireRead(t)
    \/ ReadPoisoned(t)
    \/ Lookup(t)
    \/ Report(t)
    \/ ReportPanic(t)
    \/ AcquireWrite(t)
    \/ WritePoisoned(t)
    \/ Insert(t)
    \/ InsertPanic(t)

\* the step of handle_file taken by any one job
SomeStartHash == \E t \in TaskIds : StartHash(t)

SomeOpenPanic == \E t \in TaskIds : OpenPanic(t)

SomeHashFile == \E t \in TaskIds : HashFile(t)

SomeHashReadErr == \E t \in TaskIds : HashReadErr(t)

SomeHashRetry == \E t \in TaskIds : HashRetry(t)

SomeAcquireRead == \E t \in TaskIds : AcquireRead(t)

SomeReadPoisoned == \E t \in TaskIds : ReadPoisoned(t)

SomeLookup == \E t \in TaskIds : Lookup(t)

SomeReport == \E t \in TaskIds : Report(t)

SomeReportPanic == \E t \in TaskIds : ReportPanic(t)

SomeAcquireWrite == \E t \in TaskIds : AcquireWrite(t)

SomeWritePoisoned == \E t \in TaskIds : WritePoisoned(t)

SomeInsert == \E t \in TaskIds : Insert(t)

SomeInsertPanic == \E t \in TaskIds : InsertPanic(t)

Next ==
    \/ Controller
    \/ SomeStartHash
    \/ SomeOpenPanic
    \/ SomeHashFile
    \/ SomeHashReadErr
    \/ SomeHashRetry
    \/ SomeAcquireRead
    \/ SomeReadPoisoned
    \/ SomeLookup
    \/ SomeReport
    \/ SomeReportPanic
    \/ SomeAcquireWrite
    \/ SomeWritePoisoned
    \/ SomeInsert
    \/ SomeInsertPanic

Spec == Init /\ [][Next]_vars

\* one call submits no more jobs than the tree has entries that are no
\* directory, and is made on top of at most MaxRescanJobs earlier jobs
MaxTasks == NumFiles + 3 + MaxRescanJobs

\* The controller thread and the threads of the pool are scheduled by the
\* operating system: each of them keeps running while it can.
FairSpec ==
    /\ Spec
    /\ WF_vars(Controller)
    /\ \A t \in 1..MaxTasks : WF_vars(t \in TaskIds /\ Worker(t))


(***************************************************************************)
(* Vocabulary of the properties.                                           *)
(***************************************************************************)
\* the digest of the file a job was submitted for
TaskDigest(t) == hash_file(tasks[t].path)

AllTerminal == \A t \in TaskIds : tasks[t].st \in Terminal

\* the job has looked its digest up and found no prior path
ObservedNone(t) ==
    \/ tasks[t].st \in {"WriteLocked", "Recorded"}
    \/ tasks[t].st = "Observed" /\ ~IsSome(tasks[t].seen_file)

\* the job has looked its digest up and found a prior path
ObservedSome(t) ==
    \/ tasks[t].st = "Reported"
    \/ tasks[t].st = "Observed" /\ IsSome(tasks[t].seen_file)

Digests == {hash_file(p) : p \in Paths}

\* hash_file(p) returns: the file opens and its reads succeed
Hashable(p) == FileOpen(p) /\ ~FaultAt("read", p)

\* the jobs submitted by the k-th call of find_dupes
ScanTasks(k) == {t \in TaskIds : tasks[t].scan = k}

\* the jobs of the scan of the fresh scanner for the files with digest d
\* that hash_file can hash
TasksOf(d) ==
    {t \in ScanTasks(1) : Hashable(tasks[t].path) /\ TaskDigest(t) = d}

LinesOf(d) == {i \in DOMAIN stdout : hash_file(stdout[i].dup) = d}

ReturnedOk == pc = "done" /\ result = "Ok"

\* C1: among the jobs that looked up one digest on the fresh registry,
\* exactly one has observed "no prior value"; all others observed a path.
C1_AtomicCheckOrInsert ==
    \A d \in Digests :
        LET none == {t \in TasksOf(d) : ObservedNone(t)}
            some == {t \in TasksOf(d) : ObservedSome(t)}
        IN  (none \cup some # {}) => Cardinality(none) = 1

\* C2: first writer wins: an entry of the registry, once set, is never
\* removed and never given another path.
C2_FirstWriterWins ==
    [][\A d \in DOMAIN seen_files :
          d \in DOMAIN seen_files' /\ seen_files'[d] = seen_files[d]]_vars

\* C3: when find_dupes has returned Ok (here already without any I/O fault),
\* a digest shared by n hashed files has exactly n-1 duplicate lines: one job
\* of the digest recorded its path, every other job reported one line.
C3_OneLinePerLoser ==
    (ReturnedOk /\ calls = 1 /\ fault = NoFault) =>
        \A d \in Digests :
            TasksOf(d) # {} =>
                /\ Cardinality(LinesOf(d)) = Cardinality(TasksOf(d)) - 1
                /\ Cardinality({t \in TasksOf(d) : tasks[t].st = "Recorded"}) = 1
                /\ \A t \in TasksOf(d) :
                       tasks[t].st = "Reported" <=>
                           Cardinality({i \in LinesOf(d) :
                                           stdout[i].dup = tasks[t].path}) = 1

\* C4: the duplicate lines of one digest all name the same original, and
\* when the scan has ended that original is the path the registry holds.
C4_SameOriginal ==
    /\ \A i, j \in DOMAIN stdout :
           hash_file(stdout[i].dup) = hash_file(stdout[j].dup)
               => stdout[i].orig = stdout[j].orig
    /\ ReturnedOk =>
           \A i \in DOMAIN stdout :
               MapGet(seen_files, hash_file(stdout[i].dup)) = Some(stdout[i].orig)

\* The files of the tree under p that the symlink policy leaves to be
\* hashed: with ignore_symlinks a symlinked file and everything below a
\* symlinked directory are left out.
RECURSIVE PolicyFiles(_)
PolicyFiles(p) ==
    IF ~Exists(p) \/ (ignore_symlinks /\ is_symlink(p))
      THEN {}
      ELSE IF is_dir(p)
             THEN UNION {PolicyFiles(Entries(p)[i]) : i \in DOMAIN Entries(p)}
             ELSE {p}

EnumerationFault == fault.kind \in {"readdir", "entry"}

\* the paths the current call of find_dupes has submitted jobs for
Submitted == {tasks[t].path : t \in ScanTasks(calls)}

\* C5: for an existing tree with K files after symlink filtering and no
\* enumeration error, jobs are submitted for these K files only and for none
\* of them twice, and find_dupes returns Ok only when all K were submitted
\* and every job is terminal.
C5_ScanCompleteness ==
    (Exists(start_dir) /\ ~EnumerationFault) =>
        /\ Submitted \subseteq PolicyFiles(start_dir)
        /\ Cardinality(ScanTasks(calls)) = Cardinality(Submitted)
        /\ ReturnedOk =>
               /\ AllTerminal
               /\ Cardinality(ScanTasks(calls)) = Cardinality(PolicyFiles(start_dir))

\* C6: find_dupes has not returned, with Ok or with Err, while a job it
\* submitted is pending or running.
C6_ReturnsAfterAllTasks == pc = "done" => AllTerminal

RECURSIVE Below(_)
Below(p) ==
    {Entries(p)[i] : i \in DOMAIN Entries(p)}
        \cup UNION {Below(Entries(p)[i]) : i \in DOMAIN Entries(p)}

\* p is a symlink, or is reached through a symlinked directory
ViaSymlink(p) ==
    \/ is_symlink(p)
    \/ \E d \in Paths : is_symlink(d) /\ is_dir(d) /\ p \in Below(d)

\* C7: with ignore_symlinks no job is submitted and no line printed for a
\* symlinked file or for a file reached through a symlinked directory;
\* without it these entries get their jobs like any other.
C7_SymlinkPolicy ==
    /\ ignore_symlinks =>
           /\ \A t \in TaskIds : ~ViaSymlink(tasks[t].path)
           /\ \A i \in DOMAIN stdout : ~ViaSymlink(stdout[i].dup)
    /\ (~ignore_symlinks /\ ReturnedOk /\ Exists(start_dir) /\ ~EnumerationFault) =>
           Submitted = PolicyFiles(start_dir)

\* C8: a root path that does not exist ends the scan with Err, with no job
\* submitted and no line printed.
C8_MissingRoot ==
    ~Exists(start_dir) =>
        /\ tasks = <<>>
        /\ stdout = <<>>
        /\ pc = "done" => result = "Err"


\* the only I/O fault the scan can meet is a File::open that fails
OnlyOpenFails == fault.kind \in {"none", "open"}

\* C9: a failure of File::open in one job stays in that job: the job ends
\* Failed, none of its steps touches the registry, its lock or the output,
\* neither the registry nor any line ever names its path, every other job
\* ends Reported or Recorded, and find_dupes returns, with Ok.
C9_OpenFailureContained ==
    /\ [](OnlyOpenFails =>
            /\ \A t \in TaskIds :
                   ~FileOpen(tasks[t].path) => tasks[t].st \in {"Pending", "Failed"}
            /\ \A d \in DOMAIN seen_files : FileOpen(seen_files[d])
            /\ \A i \in DOMAIN stdout :
                   FileOpen(stdout[i].dup) /\ FileOpen(stdout[i].orig)
            /\ pc = "done" =>
                   /\ result = "Ok"
                   /\ \A t \in TaskIds :
                          FileOpen(tasks[t].path)
                              => tasks[t].st \in {"Reported", "Recorded"})
    /\ [][\A t \in TaskIds :
             (~FileOpen(tasks[t].path) /\ tasks'[t] # tasks[t])
                 => UNCHANGED <<seen_files, lock, stdout>>]_vars
    /\ OnlyOpenFails => <>ReturnedOk

\* C9 happens: the scan of the directory has returned Ok, the job of the
\* file that cannot be opened is Failed, another job has reported a
\* duplicate and another has recorded its path.
C9_Witness ==
    /\ fault.kind = "open"
    /\ ReturnedOk
    /\ \E t \in TaskIds : tasks[t].path = fault.at /\ tasks[t].st = "Failed"
    /\ \E t \in TaskIds : tasks[t].st = "Reported"
    /\ \E t \in TaskIds : tasks[t].st = "Recorded"

\* C10: every submitted job reaches a terminal state, also when the reads
\* of its file fail, and the scan runs to completion.
C10_EveryTaskTerminates ==
    /\ \A t \in 1..MaxTasks :
           (t \in TaskIds) ~> (t \in TaskIds /\ tasks[t].st \in Terminal)
    /\ <>(pc = "done")


\* the digests of the files that were submitted and that hash_file can hash
HashedDigests ==
    {TaskDigest(t) : t \in {u \in TaskIds : Hashable(tasks[u].path)}}

\* C11: once the tree is scanned and the pool joined, the keys of the
\* registry are the digests of the hashed files.
C11_RegistryHasEveryDigest ==
    ReturnedOk => DOMAIN seen_files = HashedDigests


\* C12: every line "p = q" pairs two distinct paths that jobs were
\* submitted for and that have the same digest; no path is reported as a
\* duplicate of itself.
C12_LinesAreSound ==
    \A i \in DOMAIN stdout :
        /\ stdout[i].dup # stdout[i].orig
        /\ hash_file(stdout[i].dup) = hash_file(stdout[i].orig)
        /\ \E t \in TaskIds : tasks[t].path = stdout[i].dup
        /\ \E t \in TaskIds : tasks[t].path = stdout[i].orig

\* the jobs of the k-th scan that printed a line for a file of digest d
ReportedIn(k, d) ==
    {t \in ScanTasks(k) : tasks[t].st = "Reported" /\ TaskDigest(t) = d}

\* C13: every call of find_dupes starts from an empty registry, and a
\* second call over the same tree has printed, when it returns, as many
\* lines per digest as the first.
C13_RegistryPerCall ==
    /\ [][(pc # "scan" /\ pc' = "scan") => seen_files = <<>>]_vars
    /\ [](calls = 2 /\ ReturnedOk =>
            \A d \in Digests :
                Cardinality(ReportedIn(2, d)) = Cardinality(ReportedIn(1, d)))


\* the controller is about to call read_dir on a directory that cannot be
\* read, or to take an entry that the iterator cannot yield
AtEnumerationFault ==
    /\ pc = "scan" /\ stack # <<>>
    /\ \/ Top.i = 0 /\ is_dir(Top.path) /\ FaultAt("readdir", Top.path)
       \/ HasEntry /\ FaultAt("entry", Entry)

\* C14: the step of the controller that meets an enumeration error makes
\* find_dupes return Err at once, submitting nothing; once find_dupes has
\* returned Err no further job is submitted by that call; Err is returned
\* for no other reason, and a scan of r that meets the error never returns Ok.
C14_EnumerationErrorReturned ==
    /\ [][(AtEnumerationFault /\ <<pc, stack>>' # <<pc, stack>>)
             => (pc' = "done" /\ result' = "Err" /\ tasks' = tasks)]_vars
    /\ [][(pc = "done" /\ result = "Err" /\ pc' = "done")
             => (Len(tasks') = Len(tasks) /\ result' = "Err")]_vars
    /\ [](result = "Err" => pc = "done" /\ EnumerationFault)
    /\ []((start_dir = "r" /\ EnumerationFault) => result # "Ok")

\* C14 happens: find_dupes has returned Err after submitting jobs, and the
\* jobs it had submitted have all run since.
C14_Witness ==
    /\ pc = "done" /\ result = "Err"
    /\ Len(tasks) > 0
    /\ AllTerminal

\* the root path is a regular file, or a symlink to one
RootIsFile == Exists(start_dir) /\ ~is_dir(start_dir)

SkippedRoot == ignore_symlinks /\ is_symlink(start_dir)

\* C15: for a root that is a regular file every call submits at most one
\* job, for the root itself, and none for a symlink under ignore_symlinks;
\* find_dupes returns Ok, with the job submitted and terminal; the scan of the
\* fresh scanner prints nothing.
C15_RootFile ==
    RootIsFile =>
        /\ \A k \in 1..calls : Cardinality(ScanTasks(k)) <= 1
        /\ \A t \in TaskIds : tasks[t].path = start_dir
        /\ SkippedRoot => tasks = <<>>
        /\ pc = "done" =>
               /\ result = "Ok"
               /\ AllTerminal
               /\ ~SkippedRoot => Cardinality(ScanTasks(calls)) = 1
        /\ calls <= 1 => stdout = <<>>

\* C15 happens: the scan of the fresh scanner of the file r/f1 has returned
\* with its one job Recorded.
C15_Witness ==
    /\ start_dir = FileName(1)
    /\ calls = 1 /\ ReturnedOk
    /\ Len(tasks) = 1 /\ tasks[1].st = "Recorded"


\* the jobs that reach the outcome o in the step
Becoming(o) == {t \in TaskIds : tasks[t].st # o /\ tasks'[t].st = o}

NoIOErrors == fault = NoFault /\ Exists(start_dir)

\* C17: jobs are submitted by steps of the controller in scan_directory
\* only, one at a time and behind the jobs already there; in a tree without
\* I/O errors every state short of the return of Ok has a step to take, for
\* every pool size; and under fair scheduling every call of find_dupes on
\* such a tree returns Ok.
C17_NoDeadlock ==
    /\ [][Len(tasks') # Len(tasks) =>
             /\ pc = "scan" /\ stack' # stack
             /\ Len(tasks') = Len(tasks) + 1
             /\ SubSeq(tasks', 1, Len(tasks)) = tasks]_vars
    /\ [](NoIOErrors => ReturnedOk \/ pc = "idle" \/ ENABLED Next)
    /\ (NoIOErrors => [](pc \in {"scan", "join"} => <>ReturnedOk))

\* C17 happens: a pool of one thread has worked off the jobs of the tree r,
\* which is two directories deep, and find_dupes has returned Ok.
C17_Witness ==
    /\ NoIOErrors /\ start_dir = "r" /\ num_threads = 1
    /\ ReturnedOk
    /\ \E t \in TaskIds : tasks[t].path = "r/sub/g" /\ tasks[t].st \in Terminal

\* C18: at most num_threads jobs are being run, hashing or at the registry;
\* every other job is queued as Pending or has ended, and the queued jobs are
\* the youngest.
C18_PoolBound ==
    /\ ActiveCount <= num_threads
    /\ \A t \in TaskIds : tasks[t].st \in {"Pending"} \cup Running \cup Terminal
    /\ \A t, u \in TaskIds :
           (t < u /\ tasks[t].st = "Pending") => tasks[u].st = "Pending"

\* C18 happens: every thread of a pool of two is running a job and a third
\* job is queued.
C18_Witness ==
    /\ num_threads = 2 /\ ActiveCount = 2
    /\ \E t \in TaskIds : tasks[t].st = "Pending"

\* C19: in a tree whose one fault is a path that is not UTF-8, the failure
\* of to_str fails the job of that path only: the lock is never poisoned and
\* no job of another file ends Failed.
C19_ToStrFailureConfined ==
    (fault.kind = "nonutf8" /\ Exists(start_dir)) =>
        /\ ~lock.poisoned
        /\ \A t \in TaskIds : tasks[t].path # fault.at => tasks[t].st # "Failed"

\* the job holds a guard of the registry lock
Holds(t) == t \in lock.readers \/ lock.writer = t

\* the job has asked for the lock and the lock is not free for it
Waits(t) ==
    \/ tasks[t].st = "Checking" /\ lock.writer # 0
    \/ /\ tasks[t].st = "Observed" /\ ~IsSome(tasks[t].seen_file)
       /\ (lock.writer # 0 \/ lock.readers # {})

\* C20: a job holds the read guard exactly between read() and the end of the
\* lookup and the write guard exactly between write() and the end of the
\* insert, so none while Pending, hashing or ended, never both, and none when
\* it asks for the write lock; a reader and a writer never hold together; a
\* job that waits for the lock holds none, and a job that holds a guard has
\* its next step enabled, so the waiting jobs wait for jobs that wait for
\* nothing.
C20_LockDiscipline ==
    /\ \A t \in TaskIds :
           /\ t \in lock.readers <=> tasks[t].st = "ReadLocked"
           /\ lock.writer = t <=> tasks[t].st = "WriteLocked"
           /\ ~(t \in lock.readers /\ lock.writer = t)
           /\ Waits(t) => ~Holds(t)
           /\ Holds(t) => ENABLED Worker(t)
    /\ lock.readers \subseteq TaskIds
    /\ lock.writer \in TaskIds \cup {0}
    /\ lock.writer # 0 => lock.readers = {}

\* C20 happens: a job waits for the write lock, holding nothing, while
\* another job holds the read guard.
C20_Witness ==
    \E t, u \in TaskIds :
        /\ tasks[t].st = "Observed" /\ Waits(t) /\ ~Holds(t)
        /\ tasks[u].st = "ReadLocked" /\ Holds(u)

====
